---------------------------- MODULE Spec2Model ----------------------------
(***************************************************************************)
(* A model of the HTTP server of this repository:                          *)
(*   - the worker pool of src/src/lib.rs (ThreadPool, Worker), with its    *)
(*     mpsc job queue and the Mutex that guards the receiver;              *)
(*   - the request parser of src/message_parser.rs, on byte streams;       *)
(*   - the per-connection handler of src/main.rs (handle_connection and    *)
(*     the route handlers it calls).                                       *)
(* Bytes are integers 0..255; text is a sequence of bytes.                 *)
(***************************************************************************)
EXTENDS Integers, Sequences, FiniteSets, TLC

\* ------------------------------------------------------------------ bounds

\* The largest pool size ThreadPool::new is called with.
MaxWorkers == 3

\* The number of jobs submitted with ThreadPool::execute.
MaxJobs == 3

\* config.max_body_size, scaled down (main sets 1024 * 1024); a client sends
\* up to as many body bytes.
MaxBodySize == 2

\* Number of listeners of the accept loop (one per ServerConfig).
NumListeners == 2

\* ---------------------------------------------------------- bytes and text

\* Text is written below as the sequence of its bytes, with the text it is
\* the bytes of in a comment beside it.

SeqMin(S) == CHOOSE x \in S : \A y \in S : x <= y

\* s[from..] as a sequence.
From(s, from) == SubSeq(s, from, Len(s))

\* str::starts_with
StartsWith(s, prefix) ==
    /\ Len(prefix) <= Len(s)
    /\ SubSeq(s, 1, Len(prefix)) = prefix

\* u8::to_ascii_lowercase
Lower(b) == IF b >= 65 /\ b <= 90 THEN b + 32 ELSE b

\* str::eq_ignore_ascii_case
EqIgnoreAsciiCase(a, b) ==
    /\ Len(a) = Len(b)
    /\ \A i \in 1 .. Len(a) : Lower(a[i]) = Lower(b[i])

\* char::is_whitespace, on the ASCII range.
IsWhite(b) == b \in {9, 10, 11, 12, 13, 32}

\* str::trim
Trim(s) ==
    LET keep == {i \in 1 .. Len(s) : ~IsWhite(s[i])}
    IN  IF keep = {} THEN << >>
        ELSE SubSeq(s, SeqMin(keep), CHOOSE x \in keep : \A y \in keep : y <= x)

\* str::split_whitespace, collected: the maximal runs of non-whitespace.
RECURSIVE SplitWs(_, _, _)
SplitWs(s, i, tok) ==
    IF i > Len(s)
      THEN IF tok = << >> THEN << >> ELSE << tok >>
      ELSE IF IsWhite(s[i])
             THEN (IF tok = << >> THEN << >> ELSE << tok >>) \o SplitWs(s, i + 1, << >>)
             ELSE SplitWs(s, i + 1, Append(tok, s[i]))

SplitWhitespace(s) == SplitWs(s, 1, << >>)

\* str::split_once(": "): the index of the first ": " in s, 0 when there is none.
ColonSpaceAt(s) ==
    LET S == {i \in 1 .. (Len(s) - 1) : s[i] = 58 /\ s[i + 1] = 32}
    IN  IF S = {} THEN 0 ELSE SeqMin(S)

IsDigit(b) == b >= 48 /\ b <= 57

RECURSIVE DigitsValue(_)
DigitsValue(d) ==
    IF d = << >> THEN 0
    ELSE 10 * DigitsValue(SubSeq(d, 1, Len(d) - 1)) + (d[Len(d)] - 48)

\* value.parse::<usize>().unwrap_or(0): an optional plus sign, then one or more
\* digits; anything else does not parse and gives 0.
ParseUsizeOrZero(v) ==
    LET d == IF v # << >> /\ v[1] = 43 THEN Tail(v) ELSE v
    IN  IF d # << >> /\ \A i \in 1 .. Len(d) : IsDigit(d[i])
          THEN DigitsValue(d)
          ELSE 0

\* format!("{}", n) of an unsigned number.
RECURSIVE ToDecimal(_)
ToDecimal(n) ==
    IF n < 10 THEN << 48 + n >>
    ELSE Append(ToDecimal(n \div 10), 48 + (n % 10))

\* UTF-8: continuation bytes, the width a lead byte announces, and the range
\* the second byte of a 3- or 4-byte sequence must be in.
IsCont(b) == b >= 128 /\ b <= 191

Utf8Width(b) ==
    IF b < 128 THEN 1
    ELSE IF b >= 194 /\ b <= 223 THEN 2
    ELSE IF b >= 224 /\ b <= 239 THEN 3
    ELSE IF b >= 240 /\ b <= 244 THEN 4
    ELSE 0

SecondOk(b0, b1) ==
    IF b0 = 224 THEN b1 >= 160 /\ b1 <= 191
    ELSE IF b0 = 237 THEN b1 >= 128 /\ b1 <= 159
    ELSE IF b0 = 240 THEN b1 >= 144 /\ b1 <= 191
    ELSE IF b0 = 244 THEN b1 >= 128 /\ b1 <= 143
    ELSE IsCont(b1)

\* One step of the UTF-8 decoder at index i of s: whether a whole valid
\* sequence starts there, and the index after the bytes it took.
Utf8Step(s, i) ==
    LET get(j) == IF j <= Len(s) THEN s[j] ELSE 0
        w == Utf8Width(s[i])
    IN  IF w = 1 THEN [valid |-> TRUE, next |-> i + 1]
        ELSE IF w = 0 THEN [valid |-> FALSE, next |-> i + 1]
        ELSE IF ~SecondOk(s[i], get(i + 1)) THEN [valid |-> FALSE, next |-> i + 1]
        ELSE IF w = 2 THEN [valid |-> TRUE, next |-> i + 2]
        ELSE IF ~IsCont(get(i + 2)) THEN [valid |-> FALSE, next |-> i + 2]
        ELSE IF w = 3 THEN [valid |-> TRUE, next |-> i + 3]
        ELSE IF ~IsCont(get(i + 3)) THEN [valid |-> FALSE, next |-> i + 3]
        ELSE [valid |-> TRUE, next |-> i + 4]

RECURSIVE Utf8ValidFrom(_, _)
Utf8ValidFrom(s, i) ==
    IF i > Len(s) THEN TRUE
    ELSE Utf8Step(s, i).valid /\ Utf8ValidFrom(s, Utf8Step(s, i).next)

\* str::from_utf8(s).is_ok()
Utf8Valid(s) == Utf8ValidFrom(s, 1)

\* U+FFFD REPLACEMENT CHARACTER, in UTF-8.
Replacement == << 239, 191, 189 >>

RECURSIVE Utf8LossyFrom(_, _)
Utf8LossyFrom(s, i) ==
    IF i > Len(s) THEN << >>
    ELSE LET st == Utf8Step(s, i)
         IN  (IF st.valid THEN SubSeq(s, i, st.next - 1) ELSE Replacement)
             \o Utf8LossyFrom(s, st.next)

\* String::from_utf8_lossy(s).to_string(), as the bytes of the String.
Utf8Lossy(s) == Utf8LossyFrom(s, 1)


VARIABLES
    poolState,    \* "none" before ThreadPool::new, then "ok" or "error"
    size,         \* number of workers spawned by ThreadPool::new
    pc,           \* pc[w]: where worker w's thread is in the loop of Worker::new
    holder,       \* the set of workers holding the receiver's Mutex (0 or 1 worker)
    poisoned,     \* the Mutex was held by a thread that panicked
    queue,        \* the mpsc channel: ids of the jobs sent and not yet received
    senderAlive,  \* the pool (and with it its Sender) has not been dropped
    nsub,         \* number of calls of execute so far; jobs are numbered 1..nsub
    kind,         \* kind[j]: what job j does when it is called
    cur,          \* cur[w]: the job worker w received last
    execCount,    \* execCount[j]: how many times job j was called
    completed,    \* the jobs whose call returned
    dropped,      \* the jobs execute failed to send
    started       \* the jobs in the order they were received

poolVars == << poolState, size, pc, holder, poisoned, queue, senderAlive, nsub,
               kind, cur, execCount, completed, dropped, started >>

\* ------------------------------------------------------------ worker pool

WorkerIds == 0 .. (MaxWorkers - 1)
JobIds == 1 .. MaxJobs

\* What a job (a boxed FnOnce) does when it is called: it returns, it panics,
\* or it never returns.
JobKinds == {"ok", "panic", "stall"}

Workers == {w \in WorkerIds : w < size}

\* The worker's thread has ended: it left the loop or unwound from a panic.
Ended(w) == pc[w] \in {"done", "panicked"}

\* The Receiver lives in an Arc shared by the worker threads only (the local
\* of ThreadPool::new is dropped on return): it is dropped with the last thread.
ReceiverAlive == \E w \in Workers : ~Ended(w)

PoolInit ==
    /\ poolState = "none"
    /\ size = 0
    /\ pc = [w \in WorkerIds |-> "unspawned"]
    /\ holder = {}
    /\ poisoned = FALSE
    /\ queue = << >>
    /\ senderAlive = FALSE
    /\ nsub = 0
    /\ kind = [j \in JobIds |-> "ok"]
    /\ cur = [w \in WorkerIds |-> 0]
    /\ execCount = [j \in JobIds |-> 0]
    /\ completed = {}
    /\ dropped = {}
    /\ started = << >>

\* New with the loop over 0..size stopped one short.
NewSpawnsOneLess(sz) ==
    /\ poolState = "none"
    /\ IF sz = 0
         THEN /\ poolState' = "error"
              /\ UNCHANGED << size, pc, senderAlive >>
         ELSE /\ poolState' = "ok"
              /\ size' = sz
              /\ pc' = [w \in WorkerIds |-> IF w < sz - 1 THEN "lock" ELSE "unspawned"]
              /\ senderAlive' = TRUE
    /\ UNCHANGED << holder, poisoned, queue, nsub, kind, cur, execCount,
                    completed, dropped, started >>

\* ThreadPool::new(size): Err for 0 before anything is created; else the
\* channel, the Arc<Mutex<Receiver>> and one Worker::new per id in 0..size,
\* each with a clone of the Arc.
New(sz) ==
    /\ poolState = "none"
    /\ IF sz = 0
         THEN /\ poolState' = "error"
              /\ UNCHANGED << size, pc, senderAlive >>
         ELSE /\ poolState' = "ok"
              /\ size' = sz
              /\ pc' = [w \in WorkerIds |-> IF w < sz THEN "lock" ELSE "unspawned"]
              /\ senderAlive' = TRUE
    /\ UNCHANGED << holder, poisoned, queue, nsub, kind, cur, execCount,
                    completed, dropped, started >>

\* Execute with a channel that puts the job at the front.
ExecuteSendsToFront(k) ==
    /\ poolState = "ok"
    /\ senderAlive
    /\ nsub < MaxJobs
    /\ nsub' = nsub + 1
    /\ kind' = [kind EXCEPT ![nsub + 1] = k]
    /\ IF ReceiverAlive
         THEN queue' = << nsub + 1 >> \o queue /\ UNCHANGED dropped
         ELSE dropped' = dropped \cup {nsub + 1} /\ UNCHANGED queue
    /\ UNCHANGED << poolState, size, pc, holder, poisoned, senderAlive, cur,
                    execCount, completed, started >>

\* ThreadPool::execute(f): send the boxed job; a failed send is only logged.
\* send on the unbounded channel never waits: it fails only when the Receiver
\* is gone.
Execute(k) ==
    /\ poolState = "ok"
    /\ senderAlive
    /\ nsub < MaxJobs
    /\ nsub' = nsub + 1
    /\ kind' = [kind EXCEPT ![nsub + 1] = k]
    /\ IF ReceiverAlive
         THEN queue' = Append(queue, nsub + 1) /\ UNCHANGED dropped
         ELSE dropped' = dropped \cup {nsub + 1} /\ UNCHANGED queue
    /\ UNCHANGED << poolState, size, pc, holder, poisoned, senderAlive, cur,
                    execCount, completed, started >>

\* The ThreadPool value is dropped: its Sender goes with it (there is no Drop
\* impl and no join).
DropPool ==
    /\ poolState = "ok"
    /\ senderAlive
    /\ senderAlive' = FALSE
    /\ UNCHANGED << poolState, size, pc, holder, poisoned, queue, nsub, kind,
                    cur, execCount, completed, dropped, started >>

\* receiver.lock().unwrap(): blocks while another worker holds the Mutex; on a
\* poisoned Mutex lock() is Err and unwrap panics.
Lock(w) ==
    /\ w \in Workers
    /\ pc[w] = "lock"
    /\ holder = {}
    /\ IF poisoned
         THEN pc' = [pc EXCEPT ![w] = "panicked"] /\ UNCHANGED holder
         ELSE pc' = [pc EXCEPT ![w] = "recv"] /\ holder' = {w}
    /\ UNCHANGED << poolState, size, poisoned, queue, senderAlive, nsub, kind,
                    cur, execCount, completed, dropped, started >>

\* Recv on a channel that gives Err as soon as the Sender is gone, with jobs
\* still in it.
RecvFailsOnceDisconnected(w) ==
    /\ w \in Workers
    /\ pc[w] = "recv"
    /\ IF senderAlive
         THEN /\ queue # << >>
              /\ queue' = Tail(queue)
              /\ cur' = [cur EXCEPT ![w] = Head(queue)]
              /\ started' = Append(started, Head(queue))
              /\ execCount' = [execCount EXCEPT ![Head(queue)] = @ + 1]
              /\ pc' = [pc EXCEPT ![w] = "run"]
              /\ UNCHANGED holder
         ELSE /\ pc' = [pc EXCEPT ![w] = "done"]
              /\ holder' = holder \ {w}
              /\ UNCHANGED << queue, cur, started, execCount >>
    /\ UNCHANGED << poolState, size, poisoned, senderAlive, nsub, kind,
                    completed, dropped >>

\* Recv with a receive that leaves the job in the channel.
RecvLeavesJobQueued(w) ==
    /\ w \in Workers
    /\ pc[w] = "recv"
    /\ IF queue # << >>
         THEN /\ cur' = [cur EXCEPT ![w] = Head(queue)]
              /\ started' = Append(started, Head(queue))
              /\ execCount' = [execCount EXCEPT ![Head(queue)] = @ + 1]
              /\ pc' = [pc EXCEPT ![w] = "run"]
              /\ UNCHANGED << holder, queue >>
         ELSE /\ ~senderAlive
              /\ pc' = [pc EXCEPT ![w] = "done"]
              /\ holder' = holder \ {w}
              /\ UNCHANGED << queue, cur, started, execCount >>
    /\ UNCHANGED << poolState, size, poisoned, senderAlive, nsub, kind,
                    completed, dropped >>

\* .recv() under the guard: blocks while the channel is empty and the Sender
\* alive. Ok(job): the job is called with the guard (a temporary of the match
\* scrutinee) still alive. Err: break, the guard is dropped.
Recv(w) ==
    /\ w \in Workers
    /\ pc[w] = "recv"
    /\ IF queue # << >>
         THEN /\ queue' = Tail(queue)
              /\ cur' = [cur EXCEPT ![w] = Head(queue)]
              /\ started' = Append(started, Head(queue))
              /\ execCount' = [execCount EXCEPT ![Head(queue)] = @ + 1]
              /\ pc' = [pc EXCEPT ![w] = "run"]
              /\ UNCHANGED holder
         ELSE /\ ~senderAlive
              /\ pc' = [pc EXCEPT ![w] = "done"]
              /\ holder' = holder \ {w}
              /\ UNCHANGED << queue, cur, started, execCount >>
    /\ UNCHANGED << poolState, size, poisoned, senderAlive, nsub, kind,
                    completed, dropped >>

\* Finish with the guard leaked instead of dropped.
FinishKeepsGuard(w) ==
    /\ w \in Workers
    /\ pc[w] = "run"
    /\ kind[cur[w]] = "ok"
    /\ completed' = completed \cup {cur[w]}
    /\ pc' = [pc EXCEPT ![w] = "lock"]
    /\ UNCHANGED << poolState, size, poisoned, queue, senderAlive, nsub, kind,
                    cur, execCount, dropped, started, holder >>

\* job() returns: the match ends, the guard is dropped, the loop goes round.
Finish(w) ==
    /\ w \in Workers
    /\ pc[w] = "run"
    /\ kind[cur[w]] = "ok"
    /\ completed' = completed \cup {cur[w]}
    /\ holder' = holder \ {w}
    /\ pc' = [pc EXCEPT ![w] = "lock"]
    /\ UNCHANGED << poolState, size, poisoned, queue, senderAlive, nsub, kind,
                    cur, execCount, dropped, started >>

\* job() panics: nothing catches it, the thread unwinds, and the guard dropped
\* while panicking poisons the Mutex.
PanicJob(w) ==
    /\ w \in Workers
    /\ pc[w] = "run"
    /\ kind[cur[w]] = "panic"
    /\ pc' = [pc EXCEPT ![w] = "panicked"]
    /\ holder' = holder \ {w}
    /\ poisoned' = TRUE
    /\ UNCHANGED << poolState, size, queue, senderAlive, nsub, kind, cur,
                    execCount, completed, dropped, started >>

WorkerStep(w) == Lock(w) \/ Recv(w) \/ Finish(w) \/ PanicJob(w)

PoolNext ==
    \/ \E sz \in 0 .. MaxWorkers : New(sz)
    \/ \E k \in JobKinds : Execute(k)
    \/ DropPool
    \/ \E w \in WorkerIds : Lock(w)
    \/ \E w \in WorkerIds : Recv(w)
    \/ \E w \in WorkerIds : Finish(w)
    \/ \E w \in WorkerIds : PanicJob(w)

\* ------------------------------------------------------- the connection

VARIABLES
    config,         \* the ServerConfig bound to the connection
    sent,           \* the pieces the client's bytes were put together from
    stream,         \* the bytes the client sends on the connection
    eof,            \* the client has closed its side (a read at the end sees EOF)
    pos,            \* number of bytes of the stream read so far
    hpc,            \* where handle_connection is
    method,         \* parts[0] of the request line
    path,           \* parts[1] of the request line
    headers,        \* the headers HashMap
    content_length, \* the local of parse_request
    body,           \* the body of the Request (the bytes of the String)
    parsed,         \* the result of parse_request: "none", "ok" or "err"
    parseErr,       \* the Err of parse_request: "none" or its cause
    routed,         \* the route handlers called, in order
    fsys,           \* the files the handler found when it looked
    response,       \* the responses handed to stream.write_all, in order
    wire,           \* the responses written and flushed to the client
    result,         \* what handle_connection returned: "none", "Ok" or "Err"
    closed          \* the TcpStream was dropped

connVars == << config, sent, stream, eof, pos, hpc, method, path, headers,
               content_length, body, parsed, parseErr, routed, fsys, response,
               wire, result, closed >>

\* Text of the program.
CRLF == << 13, 10 >>  \* "\r\n"
StrGET == << 71, 69, 84 >>  \* "GET"
StrPOST == << 80, 79, 83, 84 >>  \* "POST"
StrDELETE == << 68, 69, 76, 69, 84, 69 >>  \* "DELETE"
StrPUT == << 80, 85, 84 >>  \* "PUT"
StrHost == << 72, 111, 115, 116 >>  \* "Host"
StrContentLength == << 67, 111, 110, 116, 101, 110, 116, 45, 76, 101, 110, 103, 116, 104 >>  \* "Content-Length"
StrCgiPrefix == << 47, 99, 103, 105, 45, 98, 105, 110, 47 >>  \* "/cgi-bin/"
StrSlash == << 47 >>  \* "/"
StrHttp == << 72, 84, 84, 80, 47, 49, 46, 49, 32 >>  \* "HTTP/1.1 "
StrLengthHeader == << 13, 10, 67, 111, 110, 116, 101, 110, 116, 45, 76, 101, 110, 103, 116, 104, 58, 32 >>  \* "\r\nContent-Length: "
Str200 == << 72, 84, 84, 80, 47, 49, 46, 49, 32, 50, 48, 48, 32, 79, 75 >>  \* "HTTP/1.1 200 OK"
Str200Type == << 72, 84, 84, 80, 47, 49, 46, 49, 32, 50, 48, 48, 32, 79, 75, 13, 10, 67, 111, 110, 116, 101, 110, 116, 45, 84, 121, 112, 101, 58, 32 >>  \* "HTTP/1.1 200 OK\r\nContent-Type: "
Str404 == << 72, 84, 84, 80, 47, 49, 46, 49, 32, 52, 48, 52, 32, 78, 111, 116, 32, 70, 111, 117, 110, 100 >>  \* "HTTP/1.1 404 Not Found"
Str405 == << 72, 84, 84, 80, 47, 49, 46, 49, 32, 52, 48, 53, 32, 77, 101, 116, 104, 111, 100, 32, 78, 111, 116, 32, 65, 108, 108, 111, 119, 101, 100 >>  \* "HTTP/1.1 405 Method Not Allowed"
Str413 == << 72, 84, 84, 80, 47, 49, 46, 49, 32, 52, 49, 51, 32, 80, 97, 121, 108, 111, 97, 100, 32, 84, 111, 111, 32, 76, 97, 114, 103, 101 >>  \* "HTTP/1.1 413 Payload Too Large"
Str500 == << 72, 84, 84, 80, 47, 49, 46, 49, 32, 53, 48, 48, 32, 73, 110, 116, 101, 114, 110, 97, 108, 32, 83, 101, 114, 118, 101, 114, 32, 69, 114, 114, 111, 114 >>  \* "HTTP/1.1 500 Internal Server Error"
StrDeleteAck == << 68, 101, 108, 101, 116, 101, 32, 114, 101, 113, 117, 101, 115, 116, 32, 114, 101, 99, 101, 105, 118, 101, 100 >>  \* "Delete request received"
StrPostAck == << 82, 101, 99, 101, 105, 118, 101, 100, 32, 100, 97, 116, 97, 58, 32 >>  \* "Received data: "
StrTooLarge == << 82, 101, 113, 117, 101, 115, 116, 32, 98, 111, 100, 121, 32, 116, 111, 111, 32, 108, 97, 114, 103, 101 >>  \* "Request body too large"
StrNotAllowed == << 77, 101, 116, 104, 111, 100, 32, 110, 111, 116, 32, 97, 108, 108, 111, 119, 101, 100 >>  \* "Method not allowed"
StrCgiFailed == << 67, 71, 73, 32, 115, 99, 114, 105, 112, 116, 32, 102, 97, 105, 108, 101, 100 >>  \* "CGI script failed"

\* The configuration main builds, with max_body_size scaled down to the bound.
MainConfig ==
    [ hostname |-> << 108, 111, 99, 97, 108, 104, 111, 115, 116 >>,  \* "localhost"
      root_dir |-> << 115, 114, 99 >>,  \* "src"
      error_pages |->
          (404 :> << 52, 48, 52, 46, 104, 116, 109, 108 >>  \* "404.html"
           @@ 500 :> << 53, 48, 48, 46, 104, 116, 109, 108 >>  \* "500.html"
           @@ 405 :> << 52, 48, 53, 46, 104, 116, 109, 108 >>),  \* "405.html"
      max_body_size |-> MaxBodySize,
      allowed_methods |-> << StrGET, StrPOST, StrDELETE >> ]

\* A configuration that allows a method no route handler exists for, and
\* does not allow POST and DELETE.
PutConfig == [MainConfig EXCEPT !.allowed_methods = << StrGET, StrPUT >>]

Configs == {MainConfig, PutConfig}

\* Vec::contains
Contains(v, e) == \E i \in 1 .. Len(v) : v[i] = e

\* ------------------------------------------------------------ the client

\* Request lines with at least 3 whitespace-separated tokens.
FullRequestLines ==
    { << 71, 69, 84, 32, 47, 32, 72, 84, 84, 80, 47, 49, 46, 49, 13, 10 >>,  \* "GET / HTTP/1.1\r\n"
      << 71, 69, 84, 32, 47, 120, 32, 72, 84, 84, 80, 47, 49, 46, 49, 13, 10 >>,  \* "GET /x HTTP/1.1\r\n"
      << 71, 69, 84, 32, 47, 99, 103, 105, 45, 98, 105, 110, 47, 115, 32, 72, 84, 84, 80, 47, 49, 46, 49, 13, 10 >>,  \* "GET /cgi-bin/s HTTP/1.1\r\n"
      << 80, 79, 83, 84, 32, 47, 120, 32, 72, 84, 84, 80, 47, 49, 46, 49, 13, 10 >>,  \* "POST /x HTTP/1.1\r\n"
      << 68, 69, 76, 69, 84, 69, 32, 47, 120, 32, 72, 84, 84, 80, 47, 49, 46, 49, 13, 10 >>,  \* "DELETE /x HTTP/1.1\r\n"
      << 32, 32, 68, 69, 76, 69, 84, 69, 32, 32, 32, 47, 121, 32, 72, 84, 84, 80, 47, 49, 46, 49, 32, 109, 111, 114, 101, 10 >>,  \* "  DELETE   /y HTTP/1.1 more\n"
      << 80, 85, 84, 32, 47, 120, 32, 72, 84, 84, 80, 47, 49, 46, 49, 13, 10 >> }  \* "PUT /x HTTP/1.1\r\n"

\* Request lines with fewer than 3 whitespace-separated tokens: two, none,
\* and no request line at all (what follows is then read as the line, and
\* no header line below has more than two tokens).
ShortRequestLines ==
    { << 68, 69, 76, 69, 84, 69, 32, 47, 120, 13, 10 >>,  \* "DELETE /x\r\n"
      << 32, 13, 10 >>,  \* " \r\n"
      << >> }

\* A request line that is not UTF-8.
BadRequestLines == { << 71, 255, 32, 47, 32, 72, 10 >> }

RequestLines == FullRequestLines \cup ShortRequestLines \cup BadRequestLines

\* Host header lines whose Host value starts with "localhost" (of two Host
\* lines the later one counts).
MatchingHostLines ==
    { << 72, 111, 115, 116, 58, 32, 108, 111, 99, 97, 108, 104, 111, 115, 116, 13, 10 >>,  \* "Host: localhost\r\n"
      << 72, 111, 115, 116, 58, 32, 108, 111, 99, 97, 108, 104, 111, 115, 116, 58, 56, 48, 56, 48, 13, 10 >>,  \* "Host: localhost:8080\r\n"
      << 72, 111, 115, 116, 58, 32, 101, 120, 97, 109, 112, 108, 101, 13, 10, 72, 111, 115, 116, 58, 32, 108, 111, 99, 97, 108, 104, 111, 115, 116, 10 >> }  \* "Host: example\r\nHost: localhost\n"

\* Header lines that leave the request with no Host, or with one that does
\* not start with "localhost".
OtherHostLines ==
    { << >>,
      << 72, 111, 115, 116, 58, 32, 101, 120, 97, 109, 112, 108, 101, 13, 10 >>,  \* "Host: example\r\n"
      << 104, 111, 115, 116, 58, 32, 108, 111, 99, 97, 108, 104, 111, 115, 116, 13, 10 >>,  \* "host: localhost\r\n"
      << 72, 111, 115, 116, 58, 32, 108, 111, 99, 97, 108, 13, 10 >> }  \* "Host: local\r\n"

HostLines == MatchingHostLines \cup OtherHostLines

\* Content-Length header lines, each with the length it declares (-1: the
\* request declares none the parser has to honour as written).
LengthLine(n) == [text |-> StrContentLength \o << 58, 32 >> \o ToDecimal(n) \o CRLF,
                  declared |-> n]

LengthLines ==
    {LengthLine(n) : n \in 0 .. (MaxBodySize + 1)}
    \cup { [text |-> << >>, declared |-> -1],
           [text |-> << 99, 111, 110, 116, 101, 110, 116, 45, 76, 69, 78, 71, 84, 72, 58, 32, 49, 13, 10 >>,  \* "content-LENGTH: 1\r\n"
            declared |-> 1],
           [text |-> << 67, 111, 110, 116, 101, 110, 116, 45, 76, 101, 110, 103, 116, 104, 58, 32, 120, 13, 10 >>,  \* "Content-Length: x\r\n"
            declared |-> -1],
           [text |-> << 67, 111, 110, 116, 101, 110, 116, 45, 76, 101, 110, 103, 116, 104, 58, 49, 13, 10 >>,  \* "Content-Length:1\r\n"
            declared |-> -1] }

\* The blank line that ends the headers, or none.
Separators == { CRLF, << >> }

\* Body bytes: an ASCII letter, and the two bytes of U+00E9, which are valid
\* UTF-8 only together and in this order.
BodyBytes == {97, 195, 169}

RECURSIVE SeqsUpTo(_, _)
SeqsUpTo(S, n) ==
    IF n = 0 THEN { << >> }
    ELSE LET shorter == SeqsUpTo(S, n - 1)
         IN  shorter \cup {Append(s, b) : s \in shorter, b \in S}

Bodies == SeqsUpTo(BodyBytes, MaxBodySize)

\* The files there can be, by path. "/x" is what a request path names when
\* it is read as a path of the file system; "src/..." is under root_dir.
AllFiles ==
    << 47, 120 >> :> << 70, 73, 76, 69 >>  \* "/x": "FILE"
    @@ << 115, 114, 99, 47, 120 >> :> << 115, 255 >>  \* "src/x": "s" and a byte that is not UTF-8
    @@ << 115, 114, 99, 47, 105, 110, 100, 101, 120, 46, 104, 116, 109, 108 >> :> << 60, 112, 62 >>  \* "src/index.html": "<p>"
    @@ << 115, 114, 99, 47, 52, 48, 52, 46, 104, 116, 109, 108 >> :> << 110, 102 >>  \* "src/404.html": "nf"

FileSystems == {[p \in S |-> AllFiles[p]] : S \in SUBSET DOMAIN AllFiles}

EmptyMap == [p \in {} |-> << >>]

\* What running python3 on the script gives: the spawn fails, or its stdout.
CgiOutcomes == { [ok |-> FALSE, stdout |-> << >>], [ok |-> TRUE, stdout |-> << 111, 117, 116 >>] }  \* "out"

ConnInit ==
    /\ config \in Configs
    /\ \E l \in RequestLines, h \in HostLines, c \in LengthLines,
          s \in Separators, b \in Bodies :
          /\ sent = [line |-> l, host |-> h, declared |-> c.declared,
                     length |-> c.text, sep |-> s, body |-> b]
          /\ stream = l \o h \o c.text \o s \o b
    /\ eof = FALSE
    /\ pos = 0
    /\ hpc = "request_line"
    /\ method = << >>
    /\ path = << >>
    /\ headers = EmptyMap
    /\ content_length = 0
    /\ body = << >>
    /\ parsed = "none"
    /\ parseErr = "none"
    /\ routed = << >>
    /\ fsys = EmptyMap
    /\ response = << >>
    /\ wire = << >>
    /\ result = "none"
    /\ closed = FALSE

\* ------------------------------------------------------ reading the stream

\* The index of the first line feed after position p, 0 when there is none.
LfAfter(st, p) ==
    LET S == {i \in (p + 1) .. Len(st) : st[i] = 10}
    IN  IF S = {} THEN 0 ELSE SeqMin(S)

\* BufRead::read_line returns once it has a line feed or the end of the stream.
LineReady(st, p, e) == LfAfter(st, p) # 0 \/ e

\* The position after the bytes read_line takes.
LineEnd(st, p) == IF LfAfter(st, p) # 0 THEN LfAfter(st, p) ELSE Len(st)

\* The bytes read_line takes, line feed included.
RawLine(st, p) == SubSeq(st, p + 1, LineEnd(st, p))

\* BufRead::lines: the line without its "\n" or "\r\n".
StripEol(raw) ==
    LET a == IF raw # << >> /\ raw[Len(raw)] = 10
               THEN SubSeq(raw, 1, Len(raw) - 1) ELSE raw
    IN  IF a # << >> /\ a[Len(a)] = 13 THEN SubSeq(a, 1, Len(a) - 1) ELSE a

\* HashMap::insert
Insert(m, k, v) == [x \in DOMAIN m \cup {k} |-> IF x = k THEN v ELSE m[x]]

\* HashMap::get(..).cloned().unwrap_or_default()
GetOrEmpty(m, k) == IF k \in DOMAIN m THEN m[k] ELSE << >>

\* The client closes its side. A close is seen by the server only in a read
\* that runs out of bytes, so it is taken there.
Waiting ==
    \/ hpc \in {"request_line", "headers"} /\ ~LineReady(stream, pos, eof)
    \/ hpc = "body" /\ Len(stream) - pos < content_length /\ ~eof

PeerClose ==
    /\ Waiting
    /\ eof' = TRUE
    /\ UNCHANGED << config, sent, stream, pos, hpc, method, path, headers,
                    content_length, body, parsed, parseErr, routed, fsys,
                    response, wire, result, closed >>

\* ------------------------------------------- MessageParser::parse_request

\* parse_request returns Err(cause).
ParseFails(cause) ==
    /\ parsed' = "err"
    /\ parseErr' = cause
    /\ hpc' = "dispatch"

\* TooFewParts asking for 2 parts only.
TooFewPartsOfTwo(parts) == Len(parts) < 2

\* parts.len() < 3
TooFewParts(parts) == Len(parts) < 3

\* The request line: read_line (an I/O error when the bytes are not UTF-8),
\* trim, split_whitespace, and the check for 3 parts.
ReadRequestLine ==
    /\ hpc = "request_line"
    /\ LineReady(stream, pos, eof)
    /\ pos' = LineEnd(stream, pos)
    /\ LET raw == RawLine(stream, pos)
           parts == SplitWhitespace(Trim(raw))
       IN  IF ~Utf8Valid(raw)
             THEN ParseFails("io") /\ UNCHANGED << method, path >>
             ELSE IF TooFewParts(parts)
                    THEN ParseFails("Invalid request line") /\ UNCHANGED << method, path >>
                    ELSE /\ method' = parts[1]
                         /\ path' = parts[2]
                         /\ hpc' = "headers"
                         /\ UNCHANGED << parsed, parseErr >>
    /\ UNCHANGED << config, sent, stream, eof, headers, content_length, body,
                    routed, fsys, response, wire, result, closed >>

\* One turn of the loop over buf_reader.lines(): the end of the stream or an
\* empty line ends the loop, a line with ": " is inserted (and sets
\* content_length when its key is Content-Length in any case), any other
\* line is skipped.
ReadHeaderLine ==
    /\ hpc = "headers"
    /\ LineReady(stream, pos, eof)
    /\ pos' = LineEnd(stream, pos)
    /\ LET raw == RawLine(stream, pos)
           line == StripEol(raw)
           at == ColonSpaceAt(line)
           key == SubSeq(line, 1, at - 1)
           value == From(line, at + 2)
       IN  IF raw = << >> \/ (Utf8Valid(raw) /\ line = << >>)
             THEN /\ hpc' = "length"
                  /\ UNCHANGED << headers, content_length, parsed, parseErr >>
             ELSE IF ~Utf8Valid(raw)
                    THEN ParseFails("io") /\ UNCHANGED << headers, content_length >>
                    ELSE /\ IF at = 0
                              THEN UNCHANGED << headers, content_length >>
                              ELSE /\ headers' = Insert(headers, key, value)
                                   /\ content_length' =
                                        IF EqIgnoreAsciiCase(key, StrContentLength)
                                          THEN ParseUsizeOrZero(value)
                                          ELSE content_length
                         /\ UNCHANGED << hpc, parsed, parseErr >>
    /\ UNCHANGED << config, sent, stream, eof, method, path, body, routed,
                    fsys, response, wire, result, closed >>

\* parse_request returns Ok(Request) with body b.
ParseSucceeds(b) ==
    /\ parsed' = "ok"
    /\ body' = b
    /\ hpc' = "dispatch"
    /\ UNCHANGED parseErr

\* CheckLength with the body bytes that are there taken off the stream before
\* the rejection.
CheckLengthDrainsBody ==
    /\ hpc = "length"
    /\ IF content_length > config.max_body_size
         THEN /\ ParseFails("Payload Too Large")
              /\ pos' = IF Len(stream) - pos >= content_length
                          THEN pos + content_length ELSE Len(stream)
              /\ UNCHANGED body
         ELSE /\ UNCHANGED pos
              /\ IF content_length > 0
                   THEN hpc' = "body" /\ UNCHANGED << parsed, parseErr, body >>
                   ELSE ParseSucceeds(<< >>)
    /\ UNCHANGED << config, sent, stream, eof, method, path, headers,
                    content_length, routed, fsys, response, wire, result, closed >>

\* The check of content_length against max_body_size, before any body byte
\* is read; with no body to read the request is complete.
CheckLength ==
    /\ hpc = "length"
    /\ IF content_length > config.max_body_size
         THEN ParseFails("Payload Too Large") /\ UNCHANGED body
         ELSE IF content_length > 0
                THEN hpc' = "body" /\ UNCHANGED << parsed, parseErr, body >>
                ELSE ParseSucceeds(<< >>)
    /\ UNCHANGED << config, sent, stream, eof, pos, method, path, headers,
                    content_length, routed, fsys, response, wire, result, closed >>

\* Buffer, started one byte early.
BufferFromLastByte(st, p, n) == SubSeq(st, p, p + n - 1)

\* The n bytes read_exact fills the buffer with, at position p.
Buffer(st, p, n) == SubSeq(st, p + 1, p + n)

\* read_exact of content_length bytes (an I/O error at the end of the
\* stream), then String::from_utf8_lossy.
ReadBody ==
    /\ hpc = "body"
    /\ IF Len(stream) - pos >= content_length
         THEN /\ ParseSucceeds(Utf8Lossy(Buffer(stream, pos, content_length)))
              /\ pos' = pos + content_length
         ELSE /\ eof
              /\ ParseFails("io")
              /\ pos' = Len(stream)
              /\ UNCHANGED body
    /\ UNCHANGED << config, sent, stream, eof, method, path, headers,
                    content_length, routed, fsys, response, wire, result, closed >>

\* ------------------------------------------------------- the file system

\* fs::read
ReadFile(f, p) ==
    IF p \in DOMAIN f THEN [ok |-> TRUE, data |-> f[p]]
    ELSE [ok |-> FALSE, data |-> << >>]

\* fs::read_to_string: fails as well when the file is not UTF-8.
ReadToString(f, p) ==
    IF p \in DOMAIN f /\ Utf8Valid(f[p]) THEN [ok |-> TRUE, data |-> f[p]]
    ELSE [ok |-> FALSE, data |-> << >>]

\* ------------------------------------------------------ the route handlers

\* _path.split('.').last(): what follows the last '.', or the whole path.
AfterLastDot(p) ==
    LET S == {i \in 1 .. Len(p) : p[i] = 46}
    IN  IF S = {} THEN p ELSE From(p, 1 + CHOOSE i \in S : \A j \in S : j <= i)

ContentType(p) ==
    LET ext == AfterLastDot(p)
    IN  IF ext = << 99, 115, 115 >> THEN << 116, 101, 120, 116, 47, 99, 115, 115 >>  \* "css", "text/css"
        ELSE IF ext = << 106, 115 >> THEN << 97, 112, 112, 108, 105, 99, 97, 116, 105, 111, 110, 47, 106, 97, 118, 97, 115, 99, 114, 105, 112, 116 >>  \* "js", "application/javascript"
        ELSE IF ext = << 112, 110, 103 >> THEN << 105, 109, 97, 103, 101, 47, 112, 110, 103 >>  \* "png", "image/png"
        ELSE IF ext = << 106, 112, 103 >> \/ ext = << 106, 112, 101, 103 >> THEN << 105, 109, 97, 103, 101, 47, 106, 112, 101, 103 >>  \* "jpg", "jpeg", "image/jpeg"
        ELSE IF ext = << 119, 101, 98, 112 >> THEN << 105, 109, 97, 103, 101, 47, 119, 101, 98, 112 >>  \* "webp", "image/webp"
        ELSE << 116, 101, 120, 116, 47, 112, 108, 97, 105, 110 >>  \* "text/plain"

\* The file handle_get serves for a path.
GetFilename(p, cfg) ==
    IF p = StrSlash THEN cfg.root_dir \o << 47, 105, 110, 100, 101, 120, 46, 104, 116, 109, 108 >> ELSE cfg.root_dir \o p  \* "/index.html"

ErrorPagePath(cfg) == cfg.root_dir \o << 47, 52, 48, 52, 46, 104, 116, 109, 108 >>  \* "/404.html"

HandleGet(p, cfg, f, cgi) ==
    IF StartsWith(p, StrCgiPrefix)
      THEN IF cgi.ok
             THEN [status_line |-> Str200Type \o << 116, 101, 120, 116, 47, 112, 108, 97, 105, 110 >>,  \* "text/plain"
                   body |-> Utf8Lossy(cgi.stdout)]
             ELSE [status_line |-> Str500, body |-> StrCgiFailed]
      ELSE IF ReadFile(f, GetFilename(p, cfg)).ok
             THEN [status_line |->
                      Str200Type \o (IF p = StrSlash THEN << 116, 101, 120, 116, 47, 104, 116, 109, 108 >> ELSE ContentType(p)),  \* "text/html"
                   body |-> Utf8Lossy(ReadFile(f, GetFilename(p, cfg)).data)]
             ELSE [status_line |-> Str404,
                   body |-> ReadToString(f, ErrorPagePath(cfg)).data]

HandlePost(p, b, cfg) ==
    IF Len(b) > cfg.max_body_size
      THEN [status_line |-> Str413, body |-> StrTooLarge]
      ELSE [status_line |-> Str200, body |-> StrPostAck \o b]

HandleDelete(p, cfg) == [status_line |-> Str200, body |-> StrDeleteAck]

\* -------------------------------------------------------- handle_connection

ReasonPhrase(code) ==
    IF code = 400 THEN << 66, 97, 100, 32, 82, 101, 113, 117, 101, 115, 116 >>  \* "Bad Request"
    ELSE IF code = 404 THEN << 78, 111, 116, 32, 70, 111, 117, 110, 100 >>  \* "Not Found"
    ELSE IF code = 405 THEN << 77, 101, 116, 104, 111, 100, 32, 78, 111, 116, 32, 65, 108, 108, 111, 119, 101, 100 >>  \* "Method Not Allowed"
    ELSE IF code = 413 THEN << 80, 97, 121, 108, 111, 97, 100, 32, 84, 111, 111, 32, 76, 97, 114, 103, 101 >>  \* "Payload Too Large"
    ELSE << 73, 110, 116, 101, 114, 110, 97, 108, 32, 83, 101, 114, 118, 101, 114, 32, 69, 114, 114, 111, 114 >>  \* "Internal Server Error"

\* The response send_error_response formats.
ErrorResponse(code, cfg) ==
    LET error_page == IF code \in DOMAIN cfg.error_pages
                        THEN cfg.error_pages[code]
                        ELSE << 69, 114, 114, 111, 114, 32 >> \o ToDecimal(code)  \* "Error "
    IN  StrHttp \o ToDecimal(code) \o << 32 >> \o ReasonPhrase(code)  \* " "
        \o StrLengthHeader \o ToDecimal(Len(error_page)) \o CRLF \o CRLF
        \o error_page

\* The response handle_connection formats for a routed request.
RoutedResponse(status_line, contents) ==
    status_line \o StrLengthHeader \o ToDecimal(Len(contents)) \o CRLF \o CRLF
    \o contents

\* The route handler a method is matched to, "" for the fall-through arm.
RouteOf(m) ==
    IF m = StrGET THEN "handle_get"
    ELSE IF m = StrPOST THEN "handle_post"
    ELSE IF m = StrDELETE THEN "handle_delete"
    ELSE ""

\* The match on request.method.
Route(m, p, b, cfg, f, cgi) ==
    IF m = StrGET THEN HandleGet(p, cfg, f, cgi)
    ELSE IF m = StrPOST THEN HandlePost(p, b, cfg)
    ELSE IF m = StrDELETE THEN HandleDelete(p, cfg)
    ELSE [status_line |-> Str405, body |-> StrNotAllowed]

\* The body handle_connection sends: the file the request path names in
\* the file system when it reads as a string, else the handler's body.
Contents(f, p, response_body) ==
    IF ReadToString(f, p).ok THEN ReadToString(f, p).data ELSE response_body

\* Rejection with the method checked before the host.
RejectionMethodFirst(cfg) ==
    IF ~Contains(cfg.allowed_methods, method) THEN 405
    ELSE IF ~StartsWith(GetOrEmpty(headers, StrHost), cfg.hostname) THEN 404
    ELSE 0

\* Rejection without the check of the method.
RejectionHostOnly(cfg) ==
    IF ~StartsWith(GetOrEmpty(headers, StrHost), cfg.hostname) THEN 404
    ELSE 0

\* The checks handle_connection makes on a parsed request, in order: 0 when
\* the request is routed, else the status of the error response.
Rejection(cfg) ==
    IF ~StartsWith(GetOrEmpty(headers, StrHost), cfg.hostname) THEN 404
    ELSE IF ~Contains(cfg.allowed_methods, method) THEN 405
    ELSE 0

\* The paths the handler looks up for a routed request, given the files.
LookedUp(f, cfg) ==
    {path}
    \cup (IF method = StrGET /\ ~StartsWith(path, StrCgiPrefix)
            THEN {GetFilename(path, cfg)}
                 \cup (IF ReadFile(f, GetFilename(path, cfg)).ok
                         THEN {} ELSE {ErrorPagePath(cfg)})
            ELSE {})

RunsCgi == method = StrGET /\ StartsWith(path, StrCgiPrefix)

\* handle_connection after parse_request: a parse error is answered 400, a
\* host that does not match 404, a method that is not allowed 405; else the
\* request is routed and the response is formatted. The files and the CGI
\* outcome are what the handler finds when it looks.
Dispatch(f, cgi) ==
    /\ hpc = "dispatch"
    /\ hpc' = "write"
    /\ IF parsed = "err"
         THEN /\ f = EmptyMap /\ ~cgi.ok
              /\ response' = Append(response, ErrorResponse(400, config))
              /\ UNCHANGED << routed, fsys >>
         ELSE IF Rejection(config) # 0
                THEN /\ f = EmptyMap /\ ~cgi.ok
                     /\ response' = Append(response, ErrorResponse(Rejection(config), config))
                     /\ UNCHANGED << routed, fsys >>
                ELSE /\ DOMAIN f \subseteq LookedUp(f, config)
                     /\ RunsCgi \/ ~cgi.ok
                     /\ LET r == Route(method, path, body, config, f, cgi)
                        IN  response' = Append(response,
                               RoutedResponse(r.status_line, Contents(f, path, r.body)))
                     /\ routed' = IF RouteOf(method) = "" THEN routed
                                  ELSE Append(routed, RouteOf(method))
                     /\ fsys' = f
    /\ UNCHANGED << config, sent, stream, eof, pos, method, path, headers,
                    content_length, body, parsed, parseErr, wire, result, closed >>

\* Write with a failed write sent back to be answered again.
WriteRetries(ok) ==
    /\ hpc = "write"
    /\ IF ok
         THEN /\ wire' = Append(wire, response[Len(response)])
              /\ result' = "Ok"
              /\ hpc' = "closed"
              /\ closed' = TRUE
         ELSE /\ hpc' = "dispatch"
              /\ UNCHANGED << wire, result, closed >>
    /\ UNCHANGED << config, sent, stream, eof, pos, method, path, headers,
                    content_length, body, parsed, parseErr, routed, fsys, response >>

\* Write with the parse error returned after the 400 went out.
WriteReturnsParseError(ok) ==
    /\ hpc = "write"
    /\ hpc' = "closed"
    /\ closed' = TRUE
    /\ IF ok
         THEN /\ wire' = Append(wire, response[Len(response)])
              /\ result' = IF parsed = "err" THEN "Err" ELSE "Ok"
         ELSE /\ result' = "Err"
              /\ UNCHANGED wire
    /\ UNCHANGED << config, sent, stream, eof, pos, method, path, headers,
                    content_length, body, parsed, parseErr, routed, fsys, response >>

\* stream.write_all and stream.flush, then the return: Ok(()) when the
\* response went out, the I/O error when it did not. The TcpStream is
\* dropped on return.
Write(ok) ==
    /\ hpc = "write"
    /\ hpc' = "closed"
    /\ closed' = TRUE
    /\ IF ok
         THEN /\ wire' = Append(wire, response[Len(response)])
              /\ result' = "Ok"
         ELSE /\ result' = "Err"
              /\ UNCHANGED wire
    /\ UNCHANGED << config, sent, stream, eof, pos, method, path, headers,
                    content_length, body, parsed, parseErr, routed, fsys, response >>

ConnNext ==
    \/ PeerClose
    \/ ReadRequestLine
    \/ ReadHeaderLine
    \/ CheckLength
    \/ ReadBody
    \/ \E f \in FileSystems, cgi \in CgiOutcomes : Dispatch(f, cgi)
    \/ \E ok \in BOOLEAN : Write(ok)

\* ------------------------ the inlined handle_connection of src/src/main.rs

VARIABLES
    ipc,             \* where the inlined handle_connection is
    ieof,            \* the client's close, as this handler's reads see it
    ipos,            \* number of bytes of the stream its BufReader has given out
    irequest_line,   \* the String read_line filled
    iheaders,        \* its headers HashMap
    icontent_length, \* its content_length
    ibody,           \* its body
    ifsys,           \* the files it found when it looked
    iresponse,       \* the responses it handed to write_all, in order
    iwire,           \* the responses written and flushed to the client
    iresult          \* what it returned: "none", "Ok" or "Err"

inlVars == << ipc, ieof, ipos, irequest_line, iheaders, icontent_length, ibody,
              ifsys, iresponse, iwire, iresult >>

\* The inlined handler is not running.
InlIdle ==
    /\ ipc = "idle"
    /\ ieof = FALSE
    /\ ipos = 0
    /\ irequest_line = << >>
    /\ iheaders = EmptyMap
    /\ icontent_length = 0
    /\ ibody = << >>
    /\ ifsys = EmptyMap
    /\ iresponse = << >>
    /\ iwire = << >>
    /\ iresult = "none"

\* The inlined handler is called on a connection that carries the bytes of
\* stream.
InlInit ==
    /\ ipc = "request_line"
    /\ ieof = FALSE
    /\ ipos = 0
    /\ irequest_line = << >>
    /\ iheaders = EmptyMap
    /\ icontent_length = 0
    /\ ibody = << >>
    /\ ifsys = EmptyMap
    /\ iresponse = << >>
    /\ iwire = << >>
    /\ iresult = "none"

InlWaiting ==
    \/ ipc \in {"request_line", "headers"} /\ ~LineReady(stream, ipos, ieof)
    \/ ipc = "body" /\ Len(stream) - ipos < icontent_length /\ ~ieof

\* The client closes its side while the inlined handler waits for bytes.
InlPeerClose ==
    /\ InlWaiting
    /\ ieof' = TRUE
    /\ UNCHANGED << ipc, ipos, irequest_line, iheaders, icontent_length, ibody,
                    ifsys, iresponse, iwire, iresult >>

\* The ? operator on a read: handle_connection returns the I/O error, and the
\* TcpStream is dropped with nothing written.
InlReturnsErr ==
    /\ ipc' = "closed"
    /\ iresult' = "Err"

\* buf_reader.read_line(&mut request_line)?
InlReadRequestLine ==
    /\ ipc = "request_line"
    /\ LineReady(stream, ipos, ieof)
    /\ ipos' = LineEnd(stream, ipos)
    /\ IF ~Utf8Valid(RawLine(stream, ipos))
         THEN InlReturnsErr /\ UNCHANGED irequest_line
         ELSE /\ irequest_line' = RawLine(stream, ipos)
              /\ ipc' = "headers"
              /\ UNCHANGED iresult
    /\ UNCHANGED << ieof, iheaders, icontent_length, ibody, ifsys, iresponse, iwire >>

\* One turn of the loop over buf_reader.by_ref().lines(): the end of the
\* stream, a line that fails to read, or an empty line ends the loop.
InlReadHeaderLine ==
    /\ ipc = "headers"
    /\ LineReady(stream, ipos, ieof)
    /\ ipos' = LineEnd(stream, ipos)
    /\ LET raw == RawLine(stream, ipos)
           line == StripEol(raw)
           at == ColonSpaceAt(line)
           key == SubSeq(line, 1, at - 1)
           value == From(line, at + 2)
       IN  IF raw = << >> \/ ~Utf8Valid(raw) \/ line = << >>
             THEN /\ ipc' = "length"
                  /\ UNCHANGED << iheaders, icontent_length >>
             ELSE /\ IF at = 0
                       THEN UNCHANGED << iheaders, icontent_length >>
                       ELSE /\ iheaders' = Insert(iheaders, key, value)
                            /\ icontent_length' =
                                 IF EqIgnoreAsciiCase(key, StrContentLength)
                                   THEN ParseUsizeOrZero(value)
                                   ELSE icontent_length
                  /\ UNCHANGED ipc
    /\ UNCHANGED << ieof, irequest_line, ibody, ifsys, iresponse, iwire, iresult >>

\* The check of content_length: above max_body_size the handler returns
\* send_error_response(413); with a body to read it goes on to read_exact.
InlCheckLength ==
    /\ ipc = "length"
    /\ IF icontent_length > config.max_body_size
         THEN /\ iresponse' = Append(iresponse, ErrorResponse(413, config))
              /\ ipc' = "write"
         ELSE /\ ipc' = IF icontent_length > 0 THEN "body" ELSE "dispatch"
              /\ UNCHANGED iresponse
    /\ UNCHANGED << ieof, ipos, irequest_line, iheaders, icontent_length, ibody,
                    ifsys, iwire, iresult >>

\* buf_reader.read_exact(&mut buffer)?, then String::from_utf8_lossy.
InlReadBody ==
    /\ ipc = "body"
    /\ IF Len(stream) - ipos >= icontent_length
         THEN /\ ibody' = Utf8Lossy(Buffer(stream, ipos, icontent_length))
              /\ ipos' = ipos + icontent_length
              /\ ipc' = "dispatch"
              /\ UNCHANGED iresult
         ELSE /\ ieof
              /\ InlReturnsErr
              /\ ipos' = Len(stream)
              /\ UNCHANGED ibody
    /\ UNCHANGED << ieof, irequest_line, iheaders, icontent_length, ifsys,
                    iresponse, iwire >>

\* request_line.trim().split_whitespace().collect()
InlParts == SplitWhitespace(Trim(irequest_line))

\* The checks of the inlined handler after the body is read, in order: 400
\* for a request line of fewer than 3 parts, 404 for the host, 405 for the
\* method, 0 when the request is routed.
InlRejection(parts, cfg) ==
    IF TooFewParts(parts) THEN 400
    ELSE IF ~StartsWith(GetOrEmpty(iheaders, StrHost), cfg.hostname) THEN 404
    ELSE IF ~Contains(cfg.allowed_methods, parts[1]) THEN 405
    ELSE 0

\* The paths the inlined handler looks up for a routed request.
InlLookedUp(parts, f, cfg) ==
    {parts[2]}
    \cup (IF parts[1] = StrGET /\ ~StartsWith(parts[2], StrCgiPrefix)
            THEN {GetFilename(parts[2], cfg)}
                 \cup (IF ReadFile(f, GetFilename(parts[2], cfg)).ok
                         THEN {} ELSE {ErrorPagePath(cfg)})
            ELSE {})

\* The rest of the inlined handler: the request line is looked at only now;
\* then the host, the method, the route handlers and the response.
InlDispatch(f, cgi) ==
    /\ ipc = "dispatch"
    /\ ipc' = "write"
    /\ LET parts == InlParts
           code == InlRejection(parts, config)
       IN  IF code # 0
             THEN /\ f = EmptyMap /\ ~cgi.ok
                  /\ iresponse' = Append(iresponse, ErrorResponse(code, config))
                  /\ UNCHANGED ifsys
             ELSE /\ DOMAIN f \subseteq InlLookedUp(parts, f, config)
                  /\ (parts[1] = StrGET /\ StartsWith(parts[2], StrCgiPrefix)) \/ ~cgi.ok
                  /\ LET r == Route(parts[1], parts[2], ibody, config, f, cgi)
                     IN  iresponse' = Append(iresponse,
                            RoutedResponse(r.status_line, Contents(f, parts[2], r.body)))
                  /\ ifsys' = f
    /\ UNCHANGED << ieof, ipos, irequest_line, iheaders, icontent_length, ibody,
                    iwire, iresult >>

\* stream.write_all and stream.flush of the inlined handler or of its
\* send_error_response, then the return.
InlWrite(ok) ==
    /\ ipc = "write"
    /\ ipc' = "closed"
    /\ IF ok
         THEN /\ iwire' = Append(iwire, iresponse[Len(iresponse)])
              /\ iresult' = "Ok"
         ELSE /\ iresult' = "Err"
              /\ UNCHANGED iwire
    /\ UNCHANGED << ieof, ipos, irequest_line, iheaders, icontent_length, ibody,
                    ifsys, iresponse >>

\* ------------------------------------------------- the accept loop of main

VARIABLES
    apc,      \* where main is: "idle", "start", "poll" or "sleep"
    li,       \* the index of the listener the for loop is at
    pending,  \* pending[l]: connections waiting in the backlog of listener l
    nconn     \* number of connections the clients have made

accVars == << apc, li, pending, nconn >>

ListenerIds == 0 .. (NumListeners - 1)

\* main is not running.
AccIdle ==
    /\ apc = "idle"
    /\ li = 0
    /\ pending = [l \in ListenerIds |-> 0]
    /\ nconn = 0

\* main has bound its listeners and set them non-blocking.
AccInit ==
    /\ apc = "start"
    /\ li = 0
    /\ pending = [l \in ListenerIds |-> 0]
    /\ nconn = 0

\* ThreadPool::new(4)?, with the size scaled to the bound; then the loop.
MainStart(sz) ==
    /\ apc = "start"
    /\ New(sz)
    /\ apc' = "poll"
    /\ UNCHANGED << li, pending, nconn >>

\* A client connects to listener l.
Connect(l) ==
    /\ apc # "idle"
    /\ nconn < MaxJobs
    /\ nconn' = nconn + 1
    /\ pending' = [pending EXCEPT ![l] = @ + 1]
    /\ UNCHANGED << apc, li >>

\* The loop goes on to the next listener, or to the sleep after the last.
NextListener ==
    IF li + 1 < NumListeners
      THEN li' = li + 1 /\ UNCHANGED apc
      ELSE li' = 0 /\ apc' = "sleep"

\* The outcomes of accept on a non-blocking listener: a connection, WouldBlock
\* when none is pending, or another error.
AcceptOutcomes == {"ok", "would_block", "error"}

\* Poll with the pass given up at a listener that has no connection.
PollEndsPassOnWouldBlock(outcome, k) ==
    /\ apc = "poll"
    /\ IF outcome = "ok"
         THEN /\ pending[li] > 0
              /\ pending' = [pending EXCEPT ![li] = @ - 1]
              /\ Execute(k)
              /\ NextListener
         ELSE /\ outcome = "would_block" => pending[li] = 0
              /\ IF outcome = "would_block"
                   THEN li' = 0 /\ apc' = "sleep"
                   ELSE NextListener
              /\ UNCHANGED pending
              /\ UNCHANGED poolVars
    /\ UNCHANGED nconn

\* One turn of the for loop: listener.accept(); Ok((stream, _)) is handed to
\* pool.execute as a job of kind k, anything else is skipped.
Poll(outcome, k) ==
    /\ apc = "poll"
    /\ IF outcome = "ok"
         THEN /\ pending[li] > 0
              /\ pending' = [pending EXCEPT ![li] = @ - 1]
              /\ Execute(k)
         ELSE /\ outcome = "would_block" => pending[li] = 0
              /\ UNCHANGED pending
              /\ UNCHANGED poolVars
    /\ NextListener
    /\ UNCHANGED nconn

\* thread::sleep(Duration::from_millis(100)) returns and the next pass starts.
Sleep ==
    /\ apc = "sleep"
    /\ apc' = "poll"
    /\ UNCHANGED << li, pending, nconn >>

\* ------------------------------------------------------ specifications

vars == << poolVars, connVars, inlVars, accVars >>

\* A pool with no connection being handled: the connection's variables at rest.
ConnIdle ==
    /\ config = MainConfig
    /\ sent = [line |-> << >>, host |-> << >>, declared |-> -1,
               length |-> << >>, sep |-> << >>, body |-> << >>]
    /\ stream = << >>
    /\ eof = FALSE
    /\ pos = 0
    /\ hpc = "idle"
    /\ method = << >>
    /\ path = << >>
    /\ headers = EmptyMap
    /\ content_length = 0
    /\ body = << >>
    /\ parsed = "none"
    /\ parseErr = "none"
    /\ routed = << >>
    /\ fsys = EmptyMap
    /\ response = << >>
    /\ wire = << >>
    /\ result = "none"
    /\ closed = FALSE

\* The worker pool, with jobs that are opaque.
Init == PoolInit /\ ConnIdle /\ InlIdle /\ AccIdle

Next ==
    \/ (\E sz \in 0 .. MaxWorkers : New(sz)) /\ UNCHANGED << connVars, inlVars, accVars >>
    \/ (\E k \in JobKinds : Execute(k)) /\ UNCHANGED << connVars, inlVars, accVars >>
    \/ DropPool /\ UNCHANGED << connVars, inlVars, accVars >>
    \/ (\E w \in WorkerIds : Lock(w)) /\ UNCHANGED << connVars, inlVars, accVars >>
    \/ (\E w \in WorkerIds : Recv(w)) /\ UNCHANGED << connVars, inlVars, accVars >>
    \/ (\E w \in WorkerIds : Finish(w)) /\ UNCHANGED << connVars, inlVars, accVars >>
    \/ (\E w \in WorkerIds : PanicJob(w)) /\ UNCHANGED << connVars, inlVars, accVars >>

Spec == Init /\ [][Next]_vars

\* The worker threads are scheduled by the operating system: a step a thread
\* can take and stays able to take is eventually taken. The Mutex is not fair.
FairSpec == Spec /\ \A w \in WorkerIds : WF_vars(WorkerStep(w) /\ UNCHANGED << connVars, inlVars, accVars >>)

\* One connection, from the accept to the return of handle_connection, for
\* every request of the client and every configuration.
HandlerInit == PoolInit /\ ConnInit /\ InlIdle /\ AccIdle

HandlerNext ==
    \/ PeerClose /\ UNCHANGED << poolVars, inlVars, accVars >>
    \/ ReadRequestLine /\ UNCHANGED << poolVars, inlVars, accVars >>
    \/ ReadHeaderLine /\ UNCHANGED << poolVars, inlVars, accVars >>
    \/ CheckLength /\ UNCHANGED << poolVars, inlVars, accVars >>
    \/ ReadBody /\ UNCHANGED << poolVars, inlVars, accVars >>
    \/ (\E f \in FileSystems, cgi \in CgiOutcomes : Dispatch(f, cgi)) /\ UNCHANGED << poolVars, inlVars, accVars >>
    \/ (\E ok \in BOOLEAN : Write(ok)) /\ UNCHANGED << poolVars, inlVars, accVars >>

HandlerSpec == HandlerInit /\ [][HandlerNext]_vars

\* The requests the two handlers are compared on: a POST, a request line of
\* two parts and one that is not UTF-8, with a Host that matches or not,
\* every Content-Length line, with or without the blank line, and every body.
EquivLines ==
    { << 80, 79, 83, 84, 32, 47, 120, 32, 72, 84, 84, 80, 47, 49, 46, 49, 13, 10 >>,  \* "POST /x HTTP/1.1\r\n"
      << 68, 69, 76, 69, 84, 69, 32, 47, 120, 13, 10 >>,  \* "DELETE /x\r\n"
      << 71, 255, 32, 47, 32, 72, 10 >> }

EquivHosts ==
    { << 72, 111, 115, 116, 58, 32, 108, 111, 99, 97, 108, 104, 111, 115, 116, 13, 10 >>,  \* "Host: localhost\r\n"
      << 72, 111, 115, 116, 58, 32, 101, 120, 97, 109, 112, 108, 101, 13, 10 >> }  \* "Host: example\r\n"

\* The two handlers, each called on a connection that carries the same bytes
\* under the same configuration: the handler of src/main.rs first, then the
\* inlined handler of src/src/main.rs.
EquivInit ==
    /\ PoolInit
    /\ ConnInit
    /\ sent.line \in EquivLines
    /\ sent.host \in EquivHosts
    /\ InlInit
    /\ AccIdle

EquivNext ==
    \/ PeerClose /\ UNCHANGED << poolVars, inlVars, accVars >>
    \/ ReadRequestLine /\ UNCHANGED << poolVars, inlVars, accVars >>
    \/ ReadHeaderLine /\ UNCHANGED << poolVars, inlVars, accVars >>
    \/ CheckLength /\ UNCHANGED << poolVars, inlVars, accVars >>
    \/ ReadBody /\ UNCHANGED << poolVars, inlVars, accVars >>
    \/ (\E f \in FileSystems, cgi \in CgiOutcomes : Dispatch(f, cgi)) /\ UNCHANGED << poolVars, inlVars, accVars >>
    \/ (\E ok \in BOOLEAN : Write(ok)) /\ UNCHANGED << poolVars, inlVars, accVars >>
    \/ hpc = "closed" /\ InlPeerClose /\ UNCHANGED << poolVars, connVars, accVars >>
    \/ hpc = "closed" /\ InlReadRequestLine /\ UNCHANGED << poolVars, connVars, accVars >>
    \/ hpc = "closed" /\ InlReadHeaderLine /\ UNCHANGED << poolVars, connVars, accVars >>
    \/ hpc = "closed" /\ InlCheckLength /\ UNCHANGED << poolVars, connVars, accVars >>
    \/ hpc = "closed" /\ InlReadBody /\ UNCHANGED << poolVars, connVars, accVars >>
    \/ hpc = "closed" /\ (\E f \in FileSystems, cgi \in CgiOutcomes : InlDispatch(f, cgi)) /\ UNCHANGED << poolVars, connVars, accVars >>
    \/ hpc = "closed" /\ (\E ok \in BOOLEAN : InlWrite(ok)) /\ UNCHANGED << poolVars, connVars, accVars >>

EquivSpec == EquivInit /\ [][EquivNext]_vars

\* main: the pool, the accept loop over the listeners, the clients that
\* connect, and the worker threads; the jobs are opaque.
AcceptorInit == PoolInit /\ ConnIdle /\ InlIdle /\ AccInit

AcceptorNext ==
    \/ (\E sz \in 1 .. MaxWorkers : MainStart(sz)) /\ UNCHANGED << connVars, inlVars >>
    \/ (\E l \in ListenerIds : Connect(l)) /\ UNCHANGED << poolVars, connVars, inlVars >>
    \/ (\E o \in AcceptOutcomes, k \in JobKinds : Poll(o, k)) /\ UNCHANGED << connVars, inlVars >>
    \/ Sleep /\ UNCHANGED << poolVars, connVars, inlVars >>
    \/ (\E w \in WorkerIds : Lock(w)) /\ UNCHANGED << connVars, inlVars, accVars >>
    \/ (\E w \in WorkerIds : Recv(w)) /\ UNCHANGED << connVars, inlVars, accVars >>
    \/ (\E w \in WorkerIds : Finish(w)) /\ UNCHANGED << connVars, inlVars, accVars >>
    \/ (\E w \in WorkerIds : PanicJob(w)) /\ UNCHANGED << connVars, inlVars, accVars >>

AcceptorSpec == AcceptorInit /\ [][AcceptorNext]_vars

\* -------------------------------------------------- claims: the worker pool

\* The number of places job j is in: waiting in the channel, being run by a
\* worker, completed, or dropped by a failed send.
InQueue(j) == Cardinality({i \in 1 .. Len(queue) : queue[i] = j})
RunningOn(j) == {w \in Workers : pc[w] = "run" /\ cur[w] = j}
Places(j) ==
    InQueue(j) + Cardinality(RunningOn(j))
    + (IF j \in completed THEN 1 ELSE 0) + (IF j \in dropped THEN 1 ELSE 0)

Submitted == 1 .. nsub

\* No worker thread can take a step.
PoolQuiet == \A w \in WorkerIds : ~ENABLED WorkerStep(w)

AllJobsReturn == \A j \in Submitted : kind[j] = "ok"

\* C1: when every submitted job returns (none panics), each job is in exactly
\* one place (queued, run by exactly one worker, or completed), none is called
\* twice, none is dropped, and once no worker can take a step every one of the
\* K submitted jobs has been called exactly once and has completed.
C1_ExactlyOnce ==
    AllJobsReturn =>
        /\ \A j \in Submitted :
              /\ Places(j) = 1
              /\ execCount[j] <= 1
              /\ j \notin dropped
        /\ PoolQuiet =>
              \A j \in Submitted : execCount[j] = 1 /\ j \in completed

\* C1 witness: K = MaxJobs >= S >= 2 jobs were submitted, all have been called
\* once and no worker can take a step.
C1_Witness ==
    /\ size >= 2
    /\ nsub = MaxJobs
    /\ nsub >= size
    /\ AllJobsReturn
    /\ PoolQuiet
    /\ \A j \in Submitted : execCount[j] = 1 /\ j \in completed
    /\ Cardinality({cur[w] : w \in Workers}) >= 2

\* C2: a worker that is running a job does not keep another worker from
\* dequeuing the next job: whenever a worker runs a job, a job is queued and
\* another worker is in its loop and not running, that worker can take its
\* next step towards the job (acquire the lock, or receive).
C2_RunningDoesNotBlockDequeue ==
    \A w1, w2 \in Workers :
        (/\ w1 # w2
         /\ pc[w1] = "run"
         /\ queue # << >>
         /\ pc[w2] \in {"lock", "recv"})
        => ENABLED (Lock(w2) \/ Recv(w2))

\* What the code does instead: at most one worker is running a job at a time.
C2_OneRunnerAtATime == Cardinality({w \in Workers : pc[w] = "run"}) <= 1

\* The state the C2 claim cannot get out of: one worker runs, a job waits, and
\* every other worker is stuck on the lock.
C2_Witness ==
    \E w1 \in Workers :
        /\ pc[w1] = "run"
        /\ queue # << >>
        /\ size >= 2
        /\ \A w2 \in Workers \ {w1} : pc[w2] = "lock"

\* C3: once a job has panicked, no worker thread has ended by a panic: the
\* worker that ran it and every other worker are still in their loops.
C3_PanicDoesNotEndWorker ==
    (\E j \in Submitted : kind[j] = "panic" /\ execCount[j] > 0 /\ RunningOn(j) = {})
    => \A w \in Workers : pc[w] # "panicked"

Closed == poolState = "ok" /\ ~senderAlive

\* Every job that is queued or running returns.
PendingJobsReturn ==
    /\ \A i \in 1 .. Len(queue) : kind[queue[i]] = "ok"
    /\ \A w \in Workers : pc[w] = "run" => kind[cur[w]] = "ok"

NoWorkerPanicked == \A w \in Workers : pc[w] # "panicked"

AllWorkersDone == \A w \in Workers : pc[w] = "done"

\* C4: once the sender is dropped, if every job that is queued or running
\* returns (and no job has panicked), every worker eventually gets the
\* disconnect from recv and leaves its loop: none stays blocked on the channel
\* or on the lock.
C4_CloseTerminatesWorkers ==
    (Closed /\ PendingJobsReturn /\ NoWorkerPanicked) ~> AllWorkersDone

\* C4 witness: a closed pool of at least two workers, all of them out of their
\* loops, after jobs were run.
C4_Witness ==
    /\ Closed
    /\ size >= 2
    /\ AllWorkersDone
    /\ completed # {}

\* ------------------------------------------------- claims: the connection

\* handle_connection has handed a response to write_all.
Responded == hpc \in {"write", "closed"} /\ response # << >>

\* The status code in a response's status line ("HTTP/1.1 " is 9 bytes).
StatusOf(resp) == DigitsValue(SubSeq(resp, 10, 12))

\* The body of a response: what follows the first empty line.
BodyOf(resp) ==
    LET S == {i \in 1 .. (Len(resp) - 3) : SubSeq(resp, i, i + 3) = CRLF \o CRLF}
    IN  IF S = {} THEN << >> ELSE From(resp, SeqMin(S) + 4)

\* The client declared a Content-Length above max_body_size.
DeclaredTooLarge == sent.declared > config.max_body_size

\* C5: a request whose declared Content-Length is greater than
\* config.max_body_size, and which the parser rejects for it, is answered
\* with status 413.
C5_TooLargeAnswered413 ==
    (Responded /\ DeclaredTooLarge /\ parseErr = "Payload Too Large")
    => StatusOf(response[1]) = 413

\* What the code answers instead: 400, as for every parse error.
C5_TooLargeAnswered400 ==
    (Responded /\ DeclaredTooLarge /\ parseErr = "Payload Too Large")
    => StatusOf(response[1]) = 400

StrBadRequest == << 72, 84, 84, 80, 47, 49, 46, 49, 32, 52, 48, 48, 32, 66, 97, 100, 32, 82, 101, 113, 117, 101, 115, 116, 13, 10 >>  \* "HTTP/1.1 400 Bad Request\r\n"

\* C6: when the request line has fewer than 3 whitespace-separated tokens,
\* whatever follows it, parse_request fails once the line is read, no route
\* handler is called, and the one response handle_connection writes is
\* 400 Bad Request (it reaches the client when the write succeeds).
C6_ShortLineAnswered400 ==
    (sent.line \in ShortRequestLines /\ hpc \notin {"request_line", "idle"})
    => /\ parsed = "err"
       /\ hpc \in {"dispatch", "write", "closed"}
       /\ routed = << >>
       /\ Responded =>
             /\ Len(response) = 1
             /\ StatusOf(response[1]) = 400
             /\ StartsWith(response[1], StrBadRequest)
       /\ result = "Ok" => wire = response

\* C6 witness: a two-token request line followed by a matching Host and an
\* oversized Content-Length was answered 400 and the response went out.
C6_Witness ==
    /\ hpc = "closed"
    /\ SplitWhitespace(sent.line) = << StrDELETE, << 47, 120 >> >>
    /\ sent.host \in MatchingHostLines
    /\ DeclaredTooLarge
    /\ result = "Ok"
    /\ Len(wire) = 1
    /\ StatusOf(wire[1]) = 400

\* C7: a request that parses and whose Host (empty when there is none) does
\* not start with config.hostname is answered 404, whatever its method and
\* path, and no route handler is called.
C7_HostMismatchAnswered404 ==
    (Responded /\ parsed = "ok" /\ sent.host \in OtherHostLines)
    => /\ ~StartsWith(GetOrEmpty(headers, StrHost), config.hostname)
       /\ Len(response) = 1
       /\ StatusOf(response[1]) = 404
       /\ routed = << >>
       /\ fsys = EmptyMap

\* C7 witness: a request with a method that is not allowed and with no Host
\* header was answered 404.
C7_Witness ==
    /\ hpc = "closed"
    /\ parsed = "ok"
    /\ sent.host = << >>
    /\ ~Contains(config.allowed_methods, method)
    /\ result = "Ok"
    /\ StatusOf(wire[1]) = 404

Routable == {StrGET, StrPOST, StrDELETE}

\* C8: a request that parses, whose Host matches, and whose method is not in
\* config.allowed_methods is answered 405 with no route handler called; so
\* is one whose method is allowed but is not GET, POST or DELETE.
C8_MethodAnswered405 ==
    (/\ Responded
     /\ parsed = "ok"
     /\ sent.host \in MatchingHostLines
     /\ ~Contains(config.allowed_methods, method) \/ method \notin Routable)
    => /\ Len(response) = 1
       /\ StatusOf(response[1]) = 405
       /\ routed = << >>

\* C8 witness: a DELETE that the configuration does not allow was answered
\* 405 without handle_delete being called.
C8_Witness ==
    /\ hpc = "closed"
    /\ parsed = "ok"
    /\ sent.host \in MatchingHostLines
    /\ method = StrDELETE
    /\ ~Contains(config.allowed_methods, method)
    /\ routed = << >>
    /\ result = "Ok"
    /\ StatusOf(wire[1]) = 405

\* C8 witness of the second case: an allowed PUT was answered 405.
C8_WitnessAllowedPut ==
    /\ hpc = "closed"
    /\ parsed = "ok"
    /\ method = StrPUT
    /\ Contains(config.allowed_methods, method)
    /\ result = "Ok"
    /\ StatusOf(wire[1]) = 405

\* C9: a DELETE that parses, matches the host and is allowed is answered
\* 200 OK with the body handle_delete returned, "Delete request received",
\* whatever the path and whatever files there are.
C9_DeleteAcknowledged ==
    (Responded /\ parsed = "ok" /\ routed = << "handle_delete" >>)
    => /\ StatusOf(response[1]) = 200
       /\ BodyOf(response[1]) = StrDeleteAck

\* What the code does: the acknowledgement is the body only when the request
\* path names no readable file; else the body is that file.
C9_DeleteBodyIsFileOrAck ==
    (Responded /\ parsed = "ok" /\ routed = << "handle_delete" >>)
    => /\ StatusOf(response[1]) = 200
       /\ BodyOf(response[1]) =
            IF path \in DOMAIN fsys THEN fsys[path] ELSE StrDeleteAck

\* A request with a full request line, a Content-Length header that declares
\* L with 0 <= L <= max_body_size, the blank line, and at least L bytes after
\* it.
WellFormed ==
    /\ sent.line \in FullRequestLines
    /\ sent.declared >= 0
    /\ sent.declared <= config.max_body_size
    /\ sent.sep = CRLF
    /\ Len(sent.body) >= sent.declared

BytesSent == SubSeq(sent.body, 1, sent.declared)

\* C10 as claimed: for a well-formed request parse_request returns a Request
\* whose body is the L bytes sent, for every byte content.
C10_BodyIsBytesSent ==
    (WellFormed /\ parsed # "none")
    => /\ parsed = "ok"
       /\ Len(body) = sent.declared
       /\ body = BytesSent

\* C10 as amended: parse_request returns a Request for every well-formed
\* request; its body is the L bytes sent when these are valid UTF-8, and else
\* differs from them (each invalid sequence is replaced by U+FFFD).
C10_BodyIsBytesSentWhenUtf8 ==
    (WellFormed /\ parsed # "none")
    => /\ parsed = "ok"
       /\ Utf8Valid(BytesSent) => Len(body) = sent.declared /\ body = BytesSent
       /\ ~Utf8Valid(BytesSent) => body # BytesSent /\ Utf8Valid(body)

\* C10 witness: a body of one two-byte character was returned as sent.
C10_Witness ==
    /\ WellFormed
    /\ parsed = "ok"
    /\ sent.declared = 2
    /\ BytesSent = << 195, 169 >>
    /\ body = << 195, 169 >>

\* -------------------------------------------- claims: construction, order

\* The worker threads that were spawned.
Spawned == {w \in WorkerIds : pc[w] # "unspawned"}

\* C11: ThreadPool::new(0) returns an error and spawns no worker (nor does it
\* leave a sender); new(size) with size > 0 returns a pool with exactly size
\* workers, ids 0..size-1, and as long as no job was submitted and the pool is
\* alive every one of them waits on the one shared receiver: for its lock, or
\* under the lock in recv (one worker at most).
C11_NewSpawnsSizeWorkers ==
    /\ poolState \in {"none", "error"} =>
          /\ Spawned = {}
          /\ size = 0
          /\ ~senderAlive
          /\ nsub = 0
    /\ poolState = "ok" =>
          /\ size > 0
          /\ Cardinality(Spawned) = size
          /\ Spawned = Workers
          /\ (nsub = 0 /\ senderAlive) =>
                /\ \A w \in Workers : pc[w] \in {"lock", "recv"}
                /\ {w \in Workers : pc[w] = "recv"} = holder
                /\ Cardinality(holder) <= 1

\* C11 witness: new(MaxWorkers) returned a pool; one of its MaxWorkers workers
\* waits in recv and the others wait for the lock.
C11_Witness ==
    /\ poolState = "ok"
    /\ size = MaxWorkers
    /\ Cardinality(Spawned) = MaxWorkers
    /\ nsub = 0
    /\ senderAlive
    /\ Cardinality(holder) = 1
    /\ \A w \in Workers \ holder : pc[w] = "lock"

\* C11 witness of the error: new(0) returned Err and nothing runs.
C11_WitnessZero == poolState = "error" /\ Spawned = {}

\* C12: jobs are dequeued in the order they were submitted, whichever workers
\* dequeue them and whatever the jobs do (jobs are numbered by their call of
\* execute): the jobs received so far are in increasing order, each was
\* submitted before every job still queued, and the queue is in increasing
\* order.
C12_DequeuedInSubmissionOrder ==
    /\ \A i, j \in 1 .. Len(started) : i < j => started[i] < started[j]
    /\ \A i, j \in 1 .. Len(queue) : i < j => queue[i] < queue[j]
    /\ \A i \in 1 .. Len(started), j \in 1 .. Len(queue) : started[i] < queue[j]

\* C12 witness: MaxJobs jobs were submitted and were dequeued in the order
\* 1, 2, ... by at least two different workers.
C12_Witness ==
    /\ nsub = MaxJobs
    /\ Len(started) = MaxJobs
    /\ \A i \in 1 .. MaxJobs : started[i] = i
    /\ Cardinality({cur[w] : w \in Workers} \ {0}) >= 2

\* ------------------------------------- claims: the handler's result and end

\* handle_connection has returned.
Returned == hpc = "closed"

\* C13: when parse_request fails, whatever the cause, the one response
\* handle_connection hands to write_all is 400 Bad Request and no route
\* handler is called; when the write succeeds the 400 is what the client gets
\* and the handler returns Ok(()). handle_connection returns an error only
\* when the write of its response failed (nothing went out), never because of
\* the parse error.
C13_ParseErrorAnswered400AndOk ==
    /\ (parsed = "err" /\ Responded) =>
          /\ Len(response) = 1
          /\ StartsWith(response[1], StrBadRequest)
          /\ routed = << >>
    /\ (parsed = "err" /\ Returned) =>
          /\ Responded
          /\ wire = response => result = "Ok"
    /\ Returned => result \in {"Ok", "Err"}
    /\ result = "Ok" => Returned /\ wire = response /\ Len(wire) = 1
    /\ result = "Err" => Returned /\ Responded /\ wire = << >>

\* C13 witness: a request the parser rejected for its length was answered
\* 400, the write succeeded, and handle_connection returned Ok(()).
C13_Witness ==
    /\ Returned
    /\ parsed = "err"
    /\ parseErr = "Payload Too Large"
    /\ result = "Ok"
    /\ Len(wire) = 1
    /\ StartsWith(wire[1], StrBadRequest)

\* C13 witness of the error: the write of a 400 failed and handle_connection
\* returned the error.
C13_WitnessWriteFails ==
    /\ Returned
    /\ parsed = "err"
    /\ result = "Err"
    /\ wire = << >>

\* parse_request failed on a read of the stream: read_line or a header line
\* that is not UTF-8, or read_exact at the end of the stream.
IoParseError == parsed = "err" /\ parseErr = "io"

\* C14: when parse_request fails on an I/O error of the stream,
\* handle_connection hands no response to write_all and nothing goes out to
\* the client.
C14_IoErrorAbandoned ==
    IoParseError => response = << >> /\ wire = << >>

\* What the code does: the I/O error is answered 400 like every parse error.
C14_IoErrorAnswered400 ==
    (IoParseError /\ Responded) =>
        Len(response) = 1 /\ StartsWith(response[1], StrBadRequest)

\* The state the C14 claim rules out: the body ended before Content-Length
\* bytes came, read_exact failed, and a 400 went out to the client.
C14_Witness ==
    /\ IoParseError
    /\ sent.line \in FullRequestLines
    /\ Len(sent.body) < sent.declared
    /\ Returned
    /\ result = "Ok"
    /\ StartsWith(wire[1], StrBadRequest)

\* The states of a connection in order: accepted and reading the request
\* line, parsing (headers, length check, body), parsed and dispatching, the
\* response formatted and being written, closed.
Rank(h) ==
    IF h = "request_line" THEN 1
    ELSE IF h = "headers" THEN 2
    ELSE IF h = "length" THEN 3
    ELSE IF h = "body" THEN 4
    ELSE IF h = "dispatch" THEN 5
    ELSE IF h = "write" THEN 6
    ELSE IF h = "closed" THEN 7
    ELSE 0

\* The path of the handler the connection is on.
OnPath ==
    IF parsed = "err" THEN "parse failure"
    ELSE IF parsed = "none" THEN "parsing"
    ELSE IF Rejection(config) = 404 THEN "host mismatch"
    ELSE IF Rejection(config) = 405 THEN "disallowed method"
    ELSE "routed"

C15_StateOk ==
    /\ Len(response) <= 1
    /\ Len(wire) <= 1
    /\ wire # << >> => wire = response
    /\ closed <=> Returned
    /\ Returned <=> result # "none"
    /\ Returned => Responded
    /\ ~Returned => wire = << >>

C15_StepOk ==
    /\ hpc' # hpc => Rank(hpc') > Rank(hpc)
    /\ Rank(hpc') = 7 => Rank(hpc) \in {6, 7}
    /\ Rank(hpc') = 6 => Rank(hpc) \in {5, 6}
    /\ wire' # wire => hpc = "write" /\ hpc' = "closed" /\ ~closed
    /\ closed => closed' /\ wire' = wire /\ response' = response /\ hpc' = hpc

\* C15: on every path through handle_connection the connection goes forward
\* only through reading, parsing, dispatching, writing and closed; at most
\* one response is handed to write_all and at most one goes out; the
\* connection is closed exactly when the handler has returned, after the one
\* write (succeeded or failed); and once it is closed nothing is written to
\* it and it does not leave the closed state.
C15_OneResponseThenClosed == []C15_StateOk /\ [][C15_StepOk]_vars

\* C15 witness: a routed request was answered with one response and the
\* connection is closed.
C15_Witness ==
    /\ Returned
    /\ closed
    /\ OnPath = "routed"
    /\ routed # << >>
    /\ Len(wire) = 1
    /\ result = "Ok"

\* C15 witnesses of the other paths: closed after a parse failure, a host
\* mismatch, a disallowed method, and a write error.
C15_WitnessParseFailure == closed /\ OnPath = "parse failure" /\ Len(wire) = 1
C15_WitnessHostMismatch == closed /\ OnPath = "host mismatch" /\ Len(wire) = 1
C15_WitnessDisallowed == closed /\ OnPath = "disallowed method" /\ Len(wire) = 1
C15_WitnessWriteError == closed /\ result = "Err" /\ wire = << >> /\ Len(response) = 1

\* --------------------------------------------- claims: stalls and shutdown

\* Worker w is running a job that never returns.
Stalled(w) == w \in Workers /\ pc[w] = "run" /\ kind[cur[w]] = "stall"

\* C17: a job that never returns ties up only the worker that runs it: in a
\* pool of at least 2 workers, while one worker is stalled and a job waits in
\* the queue, some other worker can take its next step towards that job
\* (acquire the lock, or receive).
C17_StallTiesUpOneWorker ==
    \A w \in Workers :
        (Stalled(w) /\ size >= 2 /\ queue # << >>)
        => \E w2 \in Workers \ {w} : ENABLED (Lock(w2) \/ Recv(w2))

\* What the code does: the stalled worker holds the guard of the receiver, so
\* from then on no job is dequeued by any worker.
C17_StallStopsEveryDequeue ==
    [][(\E w \in Workers : Stalled(w)) => started' = started]_vars

\* The state the C17 claim rules out: one of MaxWorkers workers is stalled,
\* every other worker waits for the lock, and a job that would return was
\* submitted after the stalled one and waits in the queue.
C17_Witness ==
    \E w \in Workers :
        /\ Stalled(w)
        /\ size = MaxWorkers
        /\ \A w2 \in Workers \ {w} : pc[w2] = "lock"
        /\ queue # << >>
        /\ kind[Head(queue)] = "ok"
        /\ Head(queue) > cur[w]
        /\ \A w2 \in WorkerIds : ~ENABLED WorkerStep(w2)

\* ------------------------------------------ claims: the oversized payload

\* The number of bytes of the request line, the header lines and the blank
\* line the client sent.
HeadLen == Len(sent.line) + Len(sent.host) + Len(sent.length) + Len(sent.sep)

RejectedTooLarge == parsed = "err" /\ parseErr = "Payload Too Large"

C18_StateOk ==
    /\ RejectedTooLarge =>
          /\ content_length > config.max_body_size
          /\ body = << >>
          /\ pos <= Len(stream)
          /\ sent.sep = CRLF => pos = HeadLen /\ Len(stream) - pos = Len(sent.body)
          /\ sent.sep = << >> => pos = Len(stream) /\ eof
    /\ (sent.line \in FullRequestLines /\ sent.sep = CRLF /\ DeclaredTooLarge
        /\ parsed # "none") => RejectedTooLarge
    /\ hpc = "length" => ~Waiting /\ ENABLED CheckLength

C18_StepOk ==
    (RejectedTooLarge' /\ ~RejectedTooLarge) =>
        /\ hpc = "length"
        /\ hpc' = "dispatch"
        /\ pos' = pos
        /\ eof' = eof
        /\ body' = << >>

\* C18: when content_length exceeds max_body_size parse_request returns the
\* payload-too-large error from the check that follows the header loop: the
\* step reads nothing and waits for nothing (it can be taken whatever bytes
\* are there and whether or not the client has closed), the bytes consumed
\* are the request line and the header lines up to and including the blank
\* line (up to the end of the stream when the client sent no blank line),
\* and every byte the client sent after the blank line is left unread. A
\* request with a full request line, a blank line and a declared length above
\* the maximum is always rejected this way.
C18_TooLargeBeforeBody == []C18_StateOk /\ [][C18_StepOk]_vars

\* C18 witness: the client declared a length above the maximum, sent the
\* blank line and MaxBodySize body bytes and keeps the connection open; the
\* parser has rejected the request with the body bytes unread.
C18_Witness ==
    /\ RejectedTooLarge
    /\ sent.sep = CRLF
    /\ Len(sent.body) = MaxBodySize
    /\ ~eof
    /\ pos = HeadLen
    /\ Len(stream) - pos = MaxBodySize

\* C18 witness of the rejection with no body byte there to wait for.
C18_WitnessNoBody ==
    /\ RejectedTooLarge
    /\ sent.sep = CRLF
    /\ sent.body = << >>
    /\ ~eof
    /\ pos = Len(stream)

C20_StateOk ==
    /\ (\E w \in Workers : pc[w] = "done") => queue = << >> /\ ~senderAlive
    /\ (AllJobsReturn /\ poolState = "ok" /\ \A w \in Workers : Ended(w)) =>
          /\ AllWorkersDone
          /\ dropped = {}
          /\ completed = Submitted
          /\ \A j \in Submitted : execCount[j] = 1
          /\ Len(started) = nsub

C20_StepOk ==
    \A w \in Workers :
        (pc'[w] = "done" /\ pc[w] # "done") =>
            /\ pc[w] = "recv"
            /\ queue = << >>
            /\ ~senderAlive

\* C20: a worker leaves its loop (other than by a panic) only from recv, when
\* the channel is empty and the sender is gone; so no job is left in the
\* queue once a worker has left, and when no submitted job panics or stalls
\* and every worker has ended, every job that was submitted was sent, was
\* called exactly once and has returned.
C20_ShutdownDrainsQueue == []C20_StateOk /\ [][C20_StepOk]_vars

\* C20 witness: MaxJobs jobs were submitted, the pool was dropped, and all of
\* its MaxWorkers workers have left their loops with every job completed.
C20_Witness ==
    /\ Closed
    /\ size = MaxWorkers
    /\ nsub = MaxJobs
    /\ AllJobsReturn
    /\ AllWorkersDone
    /\ completed = Submitted

\* C20 witness of the drain: the pool was dropped with MaxJobs jobs queued
\* and none started; no worker has left.
C20_WitnessDraining ==
    /\ Closed
    /\ Len(queue) = MaxJobs
    /\ started = << >>
    /\ AllJobsReturn
    /\ \A w \in Workers : pc[w] \in {"lock", "recv"}

\* ------------------------------------------- claims: the two handlers

\* The inlined handle_connection has returned.
InlReturned == ipc = "closed"

\* Both handlers have returned, every write they made succeeded, and they
\* found the same files.
BothReturned ==
    /\ Returned
    /\ InlReturned
    /\ wire = response
    /\ iwire = iresponse
    /\ ifsys = fsys

\* C16: on the same bytes, under the same configuration and with the same
\* files, the inlined handle_connection of src/src/main.rs hands the same
\* response to write_all as the handle_connection of src/main.rs (or none
\* when that one hands none) and returns the same result.
C16_SameOutcome ==
    BothReturned => iresponse = response /\ iresult = result

\* What the code does: the two agree on the requests parse_request accepts.
\* On those it rejects, the inlined handler answers 413 where the length is
\* above the maximum, returns the I/O error with no response where read_line
\* or read_exact fails, and goes on past a header line that fails to read;
\* the handler of src/main.rs answers 400 to all of them.
C16_AgreeOnAcceptedRequests ==
    /\ (BothReturned /\ parsed = "ok") =>
          iresponse = response /\ iresult = result
    /\ (BothReturned /\ parsed = "err") =>
          /\ StatusOf(response[1]) = 400 /\ result = "Ok"
          /\ parseErr = "Payload Too Large" =>
                Len(iresponse) = 1 /\ StatusOf(iresponse[1]) = 413
          /\ (parseErr = "io" /\ ~Utf8Valid(RawLine(stream, 0))) =>
                iresponse = << >> /\ iresult = "Err"
          /\ (parseErr = "io" /\ Len(sent.body) < sent.declared /\ sent.sep = CRLF) =>
                iresponse = << >> /\ iresult = "Err"

\* The state the C16 claim rules out: on a request with a declared length
\* above the maximum the handler of src/main.rs has answered 400 and the
\* inlined handler 413.
C16_Witness ==
    /\ BothReturned
    /\ DeclaredTooLarge
    /\ Len(iwire) = 1
    /\ StatusOf(wire[1]) = 400
    /\ StatusOf(iwire[1]) = 413
    /\ result = "Ok"
    /\ iresult = "Ok"

\* A second such state: the request line is not UTF-8; the handler of
\* src/main.rs has answered 400 and returned Ok(()), the inlined handler has
\* written nothing and returned the error.
C16_WitnessNoResponse ==
    /\ BothReturned
    /\ sent.line \in BadRequestLines
    /\ StatusOf(wire[1]) = 400
    /\ result = "Ok"
    /\ iresponse = << >>
    /\ iresult = "Err"

\* A third: a header line that is not UTF-8 fails parse_request, while the
\* inlined handler leaves its header loop and routes the request.
C16_WitnessRouted ==
    /\ BothReturned
    /\ parseErr = "io"
    /\ StatusOf(wire[1]) = 400
    /\ Len(iwire) = 1
    /\ StatusOf(iwire[1]) = 200

\* ------------------------------------------------- claims: the accept loop

\* A turn of the for loop is taken.
PollStep == apc = "poll" /\ << apc, li >>' # << apc, li >>

C19_StateOk ==
    /\ apc = "poll" =>
          /\ li \in ListenerIds
          /\ pending[li] = 0 =>
                \A k \in JobKinds : ENABLED (Poll("would_block", k) /\ UNCHANGED << connVars, inlVars >>)
          /\ pending[li] > 0 =>
                \A k \in JobKinds : ENABLED (Poll("ok", k) /\ UNCHANGED << connVars, inlVars >>)
          /\ \A k \in JobKinds : ENABLED (Poll("error", k) /\ UNCHANGED << connVars, inlVars >>)
    /\ apc = "sleep" => ENABLED (Sleep /\ UNCHANGED << poolVars, connVars, inlVars >>)
    /\ nsub <= nconn
    /\ Len(queue) <= nsub

C19_StepOk ==
    /\ PollStep =>
          /\ li + 1 < NumListeners => li' = li + 1 /\ apc' = "poll"
          /\ li + 1 = NumListeners => li' = 0 /\ apc' = "sleep"
          /\ nsub' \in {nsub, nsub + 1}
          /\ pc' = pc /\ holder' = holder
    /\ nsub' # nsub =>
          /\ PollStep
          /\ nsub' = nsub + 1
          /\ pending' = [pending EXCEPT ![li] = @ - 1]
          /\ ReceiverAlive => queue' = Append(queue, nsub + 1)
    /\ (apc = "sleep" /\ apc' # apc) => apc' = "poll" /\ li' = 0

\* C19: the accept loop never waits. In every state of the workers (waiting,
\* running, stalled with the lock held, or ended) a turn of the loop can be
\* taken: accept gives WouldBlock when nothing is pending on the listener, a
\* connection when one is, or an error, and in the three cases the loop
\* goes on to the next listener of the pass (to the sleep after the last,
\* and from the sleep to a new pass). An accepted connection is handed to
\* execute in the same turn, which moves no worker and returns; as long as a
\* worker thread is alive the job is appended to the queue, which is as long
\* as the number of connections accepted and not yet dequeued.
C19_AcceptLoopNeverWaits == []C19_StateOk /\ [][C19_StepOk]_vars

\* C19 witness: a pool of MaxWorkers workers with one worker stalled and all
\* others waiting for the lock; MaxJobs connections were accepted, all after
\* the first are in the queue, and the loop is about to poll again.
C19_Witness ==
    /\ apc = "poll"
    /\ size = MaxWorkers
    /\ \E w \in Workers :
          /\ Stalled(w)
          /\ \A w2 \in Workers \ {w} : pc[w2] = "lock"
    /\ nsub = MaxJobs
    /\ Len(queue) = MaxJobs - 1
    /\ \A l \in ListenerIds : pending[l] = 0

=============================================================================
